---------------------------- MODULE Spec2Model ----------------------------
(***************************************************************************)
(* Model of the e-waste pickup wizard of api/telegram.ts: the Draft kept   *)
(* per conversation, the store it is persisted in, and the handlers of     *)
(* the bot (commands, media uploads, selections, free text).               *)
(*                                                                         *)
(* Strings that the code parses (message text, selection codes) are        *)
(* sequences of one-character strings; strings that the code only copies   *)
(* (file ids, labels, looked-up address fields) are atomic.  An optional   *)
(* field is a sequence of length 0 (absent or undefined) or 1 (present).   *)
(***************************************************************************)
EXTENDS Integers, Sequences, FiniteSets, TLC

(***************************************************************************)
(* Optional values and JavaScript truthiness                               *)
(***************************************************************************)
None == <<>>
Some(x) == <<x>>
IsSome(o) == o # None
Val(o) == o[1]

\* !!s for an optional string: undefined and "" are falsy
TruthyStr(o) == IsSome(o) /\ Val(o) # <<>>

\* a JavaScript number: NaN or an integer value
NaN == [nan |-> TRUE, v |-> 0]
Num(n) == [nan |-> FALSE, v |-> n]

\* !!q for an optional number: undefined, 0 and NaN are falsy
TruthyNum(o) == IsSome(o) /\ ~Val(o).nan /\ Val(o).v # 0

(***************************************************************************)
(* Characters and string helpers                                           *)
(***************************************************************************)
Digits == {"0", "1", "2", "3", "4", "5", "6", "7", "8", "9"}

DigitVal(c) ==
    CASE c = "0" -> 0 [] c = "1" -> 1 [] c = "2" -> 2 [] c = "3" -> 3
      [] c = "4" -> 4 [] c = "5" -> 5 [] c = "6" -> 6 [] c = "7" -> 7
      [] c = "8" -> 8 [] c = "9" -> 9

IsDigit(c) == c \in Digits
IsSpace(c) == c = " "

\* s.slice(a, b) with 0-based a (inclusive) and b (exclusive)
Slice(s, a, b) == SubSeq(s, a + 1, IF b > Len(s) THEN Len(s) ELSE b)

RECURSIVE TrimLeft(_)
TrimLeft(s) == IF s # <<>> /\ IsSpace(Head(s)) THEN TrimLeft(Tail(s)) ELSE s

RECURSIVE TrimRight(_)
TrimRight(s) ==
    IF s # <<>> /\ IsSpace(s[Len(s)]) THEN TrimRight(SubSeq(s, 1, Len(s) - 1)) ELSE s

\* String.prototype.trim
Trim(s) == TrimRight(TrimLeft(s))

\* index of the first occurrence of character c in s, 0 when there is none
RECURSIVE IndexOf(_, _, _)
IndexOf(s, c, i) ==
    IF i > Len(s) THEN 0 ELSE IF s[i] = c THEN i ELSE IndexOf(s, c, i + 1)

\* s.split(c): the pieces of s between the occurrences of c
RECURSIVE Split(_, _)
Split(s, c) ==
    LET i == IndexOf(s, c, 1)
    IN  IF i = 0 THEN <<s>>
        ELSE <<SubSeq(s, 1, i - 1)>> \o Split(SubSeq(s, i + 1, Len(s)), c)

\* parts.join(c)
RECURSIVE Join(_, _)
Join(parts, c) ==
    IF parts = <<>> THEN <<>>
    ELSE IF Len(parts) = 1 THEN parts[1]
    ELSE parts[1] \o <<c>> \o Join(Tail(parts), c)

\* the length of the longest prefix of s made of digits
RECURSIVE DigitPrefixLen(_)
DigitPrefixLen(s) ==
    IF s # <<>> /\ IsDigit(Head(s)) THEN 1 + DigitPrefixLen(Tail(s)) ELSE 0

(***************************************************************************)
(* Validators (telegram.ts 178-196)                                        *)
(***************************************************************************)
onlyDigits(s) == SelectSeq(s, IsDigit)

\* /^(\d)\1+$/ : at least two characters, all the same digit
AllSameDigit(s) ==
    /\ Len(s) >= 2
    /\ IsDigit(s[1])
    /\ \A i \in 1..Len(s) : s[i] = s[1]

\* the inner calc(base, factor): weights factor, factor - 1, ...
RECURSIVE calcTotal(_, _)
calcTotal(base, factor) ==
    IF base = <<>> THEN 0
    ELSE DigitVal(Head(base)) * factor + calcTotal(Tail(base), factor - 1)

\* a calc that returns the remainder 10 as it is
calcKeepsTen(base, factor) == (calcTotal(base, factor) * 10) % 11

calc(base, factor) ==
    LET rest == (calcTotal(base, factor) * 10) % 11
    IN  IF rest = 10 THEN 0 ELSE rest

isValidCPF(cpfRaw) ==
    LET cpf == onlyDigits(cpfRaw)
    IN  /\ Len(cpf) = 11
        /\ ~AllSameDigit(cpf)
        /\ calc(Slice(cpf, 0, 9), 10) = DigitVal(cpf[10])
        /\ calc(Slice(cpf, 0, 10), 11) = DigitVal(cpf[11])

isValidPhone(p) ==
    LET d == onlyDigits(p)
    IN  Len(d) = 10 \/ Len(d) = 11

\* cpf.replace(/(\d{3})(\d{3})(\d{3})(\d{2})/, "$1.$2.$3-$4") on 11 digits
cpfFmt(cpf) ==
    Slice(cpf, 0, 3) \o <<".">> \o Slice(cpf, 3, 6) \o <<".">> \o Slice(cpf, 6, 9)
        \o <<"-">> \o Slice(cpf, 9, 11)

\* the two phone formats: (dd) ddddd-dddd for 11 digits, (dd) dddd-dddd for 10
phoneFmt(digits) ==
    IF Len(digits) = 11
    THEN <<"(">> \o Slice(digits, 0, 2) \o <<")", " ">> \o Slice(digits, 2, 7)
            \o <<"-">> \o Slice(digits, 7, 11)
    ELSE <<"(">> \o Slice(digits, 0, 2) \o <<")", " ">> \o Slice(digits, 2, 6)
            \o <<"-">> \o Slice(digits, 6, 10)


(***************************************************************************)
(* Number(s) of JavaScript, for the strings the handlers pass to it:       *)
(* blank is 0, a run of decimal digits (with an optional minus sign) is    *)
(* its value, anything else is NaN.  Every use in the code is followed by  *)
(* a comparison with 0 or a clamp to MAX_QTY, so the value saturates one   *)
(* above MAX_QTY instead of growing without bound.                         *)
(***************************************************************************)
MAX_QTY == 999

RECURSIVE DigitsValue(_, _)
DigitsValue(s, acc) ==
    IF s = <<>> THEN acc
    ELSE LET n == acc * 10 + DigitVal(Head(s))
         IN  DigitsValue(Tail(s), IF n > MAX_QTY + 1 THEN MAX_QTY + 1 ELSE n)

Number(str) ==
    LET s == Trim(str)
    IN  IF s = <<>> THEN Num(0)
        ELSE IF \A i \in 1..Len(s) : IsDigit(s[i]) THEN Num(DigitsValue(s, 0))
        ELSE IF /\ Head(s) = "-"
                /\ Len(s) > 1
                /\ \A i \in 2..Len(s) : IsDigit(s[i])
             THEN Num(0 - DigitsValue(Tail(s), 0))
        ELSE NaN

\* Math.min(a, b) and Math.max(a, b) with b a number that may be NaN
MathMin(a, b) == IF b.nan THEN NaN ELSE Num(IF a < b.v THEN a ELSE b.v)
MathMax(a, b) == IF b.nan THEN NaN ELSE Num(IF a > b.v THEN a ELSE b.v)

(***************************************************************************)
(* The Draft (telegram.ts 16-36)                                           *)
(***************************************************************************)
Steps ==
    <<"name", "cpf", "phone", "await_photo", "await_confirm", "await_qty",
      "await_cep", "await_number", "await_day", "await_time">>

EmptyUser == [name |-> None, cpf |-> None, phone |-> None]

EmptyAddress ==
    [cep |-> None, logradouro |-> None, bairro |-> None, localidade |-> None,
     uf |-> None, numero |-> None, complemento |-> None]

EmptySchedule == [day |-> None, time |-> None]

\* { step: "name", user: {}, address: {}, schedule: {} }
InitialDraft ==
    [step |-> "name", user |-> EmptyUser, item |-> None, qty |-> None,
     address |-> EmptyAddress, schedule |-> EmptySchedule,
     latestFileId |-> None, latestFileUrl |-> None]

\* a merge that keeps partial's fields and forgets d's
SpreadForgets(d, partial) ==
    [k \in DOMAIN d |-> IF k \in DOMAIN partial THEN partial[k] ELSE InitialDraft[k]]

\* a merge that takes an item from partial only when partial has one
SpreadKeepsItem(d, partial) ==
    [k \in DOMAIN d |->
        IF k \in DOMAIN partial /\ ~(k = "item" /\ ~IsSome(partial[k]))
        THEN partial[k] ELSE d[k]]

\* { ...d, ...partial }: a shallow merge, partial's fields replace d's whole
Spread(d, partial) ==
    [k \in DOMAIN d |-> IF k \in DOMAIN partial THEN partial[k] ELSE d[k]]

(***************************************************************************)
(* The store (telegram.ts 38-138).  st.kv maps a key to the value the      *)
(* configured backend holds for it (None when it holds none); st.sets maps *)
(* a key to the value of the latest set on it.  A call to the remote       *)
(* backend can fail; ok says whether this call got an answer.  The         *)
(* in-process map always answers.                                          *)
(***************************************************************************)
Chats == {1, 2}

\* one key for every conversation
draftKeyShared(chatId) == <<"ecoleta:draft:">>

draftKey(chatId) == <<"ecoleta:draft:", chatId>>

Keys == {draftKey(c) : c \in Chats}

\* store.get: a failed remote get logs and returns undefined
storeGet(st, key, ok) == IF ok THEN st.kv[key] ELSE None

\* store.set: a failed remote set logs and writes nothing; sets records the
\* value the caller asked to store
storeSet(st, key, value, ok) ==
    [kv |-> IF ok THEN [st.kv EXCEPT ![key] = Some(value)] ELSE st.kv,
     sets |-> [st.sets EXCEPT ![key] = Some(value)]]

getDraft(st, chatId, ok) ==
    LET d == storeGet(st, draftKey(chatId), ok)
    IN  IF IsSome(d) THEN Val(d) ELSE InitialDraft

setDraft(st, chatId, draft, ok) == storeSet(st, draftKey(chatId), draft, ok)

\* mergeDraft: read, spread, write; gives the store after it and the merged draft
mergeDraft(st, chatId, partial, okGet, okSet) ==
    LET nd == Spread(getDraft(st, chatId, okGet), partial)
    IN  [st |-> setDraft(st, chatId, nd, okSet), nd |-> nd]


(***************************************************************************)
(* External collaborators.  Each call has an outcome the environment       *)
(* chooses: the classifier (with the file download before it) and the      *)
(* postal lookup.                                                          *)
(***************************************************************************)
\* classifyImage after getFileBuffer/getFileUrl: a prediction, an empty list,
\* a timeout (axios code ECONNABORTED) or any other failure
ClassifierKinds == {"ok", "empty", "timeout", "error"}

\* getFileUrl(fileId): the download address of the file
getFileUrl(fileId) == <<"https://api.telegram.org/file/", fileId>>

\* fetchViaCEP: found, the not-found flag (erro), a timeout or another failure
LookupKinds == {"found", "erro", "timeout", "error"}

\* the address the lookup answers for the 8 digits c (cep comes back as ddddd-ddd)
ViaCEP(c) ==
    [cep |-> Some(Slice(c, 0, 5) \o <<"-">> \o Slice(c, 5, 8)),
     logradouro |-> Some(<<"P", "r", "a", "c", "a">>),
     bairro |-> Some(<<"S", "e">>),
     localidade |-> Some(<<"S", "P", " ", "c", "i", "t", "y">>),
     uf |-> Some(<<"S", "P">>),
     complemento |-> Some(<<"l", "a", "d", "o", " ", "A">>)]

(***************************************************************************)
(* ScheduleCatalog (telegram.ts 215-236).  A date is a day of one month;   *)
(* its ISO form is the ten characters yyyy-mm-dd.                          *)
(***************************************************************************)
DigitChar(n) ==
    CASE n = 0 -> "0" [] n = 1 -> "1" [] n = 2 -> "2" [] n = 3 -> "3"
      [] n = 4 -> "4" [] n = 5 -> "5" [] n = 6 -> "6" [] n = 7 -> "7"
      [] n = 8 -> "8" [] n = 9 -> "9"

\* d.toISOString().slice(0, 10) for day n of the month
Iso(n) ==
    <<"2", "0", "2", "5", "-", "0", "9", "-", DigitChar(n \div 10), DigitChar(n % 10)>>

TIME_SLOTS ==
    << <<"0", "9", ":", "0", "0">>, <<"1", "1", ":", "0", "0">>,
       <<"1", "4", ":", "0", "0">>, <<"1", "6", ":", "0", "0">>,
       <<"1", "8", ":", "0", "0">> >>

\* nextDays(n): the ISO dates of day, day + 1, ..., day + n - 1
nextDays(n, day) == [i \in 1..n |-> Iso(day + i - 1)]

Range(seq) == {seq[i] : i \in 1..Len(seq)}

\* the selection codes of the keyboards
kbDays(day) == {<<"d", "a", "y", ":">> \o iso : iso \in Range(nextDays(7, day))}
kbTimes(dayISO) ==
    {<<"t", "i", "m", "e", ":">> \o dayISO \o <<"T">> \o t : t \in Range(TIME_SLOTS)}

\* new Date(s) is a valid date for a string yyyy-mm-dd with a month and a day
validDate(s) ==
    /\ Len(s) = 10
    /\ \A i \in {1, 2, 3, 4, 6, 7, 9, 10} : IsDigit(s[i])
    /\ s[5] = "-" /\ s[8] = "-"
    /\ DigitVal(s[6]) * 10 + DigitVal(s[7]) \in 1..12
    /\ DigitVal(s[9]) * 10 + DigitVal(s[10]) \in 1..31

(***************************************************************************)
(* Faulty variants of two handlers.  No behaviour of the model uses them;  *)
(* they stand for plausible slips in the code, to see that the properties  *)
(* proved below are decided by the handlers they speak about.              *)
(***************************************************************************)
\* handleImage that stores the file and the item but forgets the step
handleImageKeepsStep(st, chatId, fileId, cls, okGet, okSet) ==
    IF cls.kind = "ok"
    THEN [st |-> mergeDraft(st, chatId,
                     [latestFileId |-> Some(fileId),
                      latestFileUrl |-> Some(getFileUrl(fileId)),
                      item |-> Some([label |-> cls.label, score |-> cls.score])],
                     okGet, okSet).st,
          err |-> "none"]
    ELSE [st |-> st, err |-> IF cls.kind = "timeout" THEN "timeout" ELSE "error"]

\* handleImage that moves the step before the classifier has answered
handleImageStepsFirst(st, chatId, fileId, cls, okGet, okSet) ==
    LET st1 == mergeDraft(st, chatId, [step |-> "await_confirm"], okGet, okSet).st
    IN  IF cls.kind = "ok"
        THEN [st |-> mergeDraft(st1, chatId,
                         [latestFileId |-> Some(fileId),
                          latestFileUrl |-> Some(getFileUrl(fileId)),
                          item |-> Some([label |-> cls.label, score |-> cls.score])],
                         okGet, okSet).st,
              err |-> "none"]
        ELSE [st |-> st1, err |-> IF cls.kind = "timeout" THEN "timeout" ELSE "error"]

\* /cancel that merges step name into the Draft instead of replacing the Draft
onCancelMergesStep(st, chatId, f) ==
    [st |-> mergeDraft(st, chatId, [step |-> "name"], f[1], f[1]).st,
     reply |-> "cancelled"]

(***************************************************************************)
(* handleImage (telegram.ts 301-312): classify, and on a prediction merge  *)
(* the file, the item and step await_confirm.  err is the exception that   *)
(* leaves the function: none, timeout (code ECONNABORTED) or error.        *)
(***************************************************************************)
handleImage(st, chatId, fileId, cls, okGet, okSet) ==
    IF cls.kind = "ok"
    THEN [st |-> mergeDraft(st, chatId,
                     [latestFileId |-> Some(fileId),
                      latestFileUrl |-> Some(getFileUrl(fileId)),
                      item |-> Some([label |-> cls.label, score |-> cls.score]),
                      step |-> "await_confirm"], okGet, okSet).st,
          err |-> "none"]
    ELSE [st |-> st, err |-> IF cls.kind = "timeout" THEN "timeout" ELSE "error"]

(***************************************************************************)
(* The commands (telegram.ts 250-260)                                      *)
(***************************************************************************)
onCancel(st, chatId, f) ==
    [st |-> setDraft(st, chatId, InitialDraft, f[1]), reply |-> "cancelled"]

onStart(st, chatId, f) ==
    [st |-> setDraft(st, chatId, InitialDraft, f[1]), reply |-> "welcome"]

(***************************************************************************)
(* Media uploads (telegram.ts 315-376).  The file id is stored first, in   *)
(* every state; the image is classified only with a complete profile.      *)
(***************************************************************************)
onMedia(st, chatId, fileId, cls, f, failReply) ==
    LET d == getDraft(st, chatId, f[1])
        st1 == mergeDraft(st, chatId, [latestFileId |-> Some(fileId)], f[2], f[3]).st
    IN  IF ~TruthyStr(d.user.name) THEN [st |-> st1, reply |-> "need_name"]
        ELSE IF ~TruthyStr(d.user.cpf) THEN [st |-> st1, reply |-> "need_cpf"]
        ELSE IF ~TruthyStr(d.user.phone) THEN [st |-> st1, reply |-> "need_phone"]
        ELSE LET h == handleImage(st1, chatId, fileId, cls, f[4], f[5])
             IN  [st |-> h.st,
                  reply |-> CASE h.err = "none" -> "detected"
                              [] h.err = "timeout" -> "ai_timeout"
                              [] OTHER -> failReply]

onPhoto(st, chatId, fileId, cls, f) == onMedia(st, chatId, fileId, cls, f, "photo_failed")

onDocument(st, chatId, isImage, fileId, cls, f) ==
    IF ~isImage THEN [st |-> st, reply |-> "not_image"]
    ELSE onMedia(st, chatId, fileId, cls, f, "document_failed")


(***************************************************************************)
(* Selections (telegram.ts 379-461).  data is the selection code; it is    *)
(* split at ":" into the key and the payload.                              *)
(***************************************************************************)
S_confirm == <<"c", "o", "n", "f", "i", "r", "m">>
S_yes == <<"y", "e", "s">>
S_no == <<"n", "o">>
S_qty == <<"q", "t", "y">>
S_other == <<"o", "t", "h", "e", "r">>
S_range == <<"r", "a", "n", "g", "e">>
S_back == <<"b", "a", "c", "k">>
S_days == <<"d", "a", "y", "s">>
S_day == <<"d", "a", "y">>
S_time == <<"t", "i", "m", "e">>
S_cancel == <<"c", "a", "n", "c", "e", "l">>

\* const [key, ...rest] = data.split(":")
KeyOf(data) == Head(Split(data, ":"))

\* rest.join(":")
PayloadOf(data) == Join(Tail(Split(data, ":")), ":")

\* a guard that does not look at the postal code
LostStateNoCep(nd) ==
    \/ ~TruthyStr(nd.user.name)
    \/ ~TruthyStr(nd.user.cpf)
    \/ ~TruthyStr(nd.user.phone)
    \/ ~IsSome(nd.item)
    \/ ~TruthyNum(nd.qty)

\* the guard against lost state before the summary
LostState(nd) ==
    \/ ~TruthyStr(nd.user.name)
    \/ ~TruthyStr(nd.user.cpf)
    \/ ~TruthyStr(nd.user.phone)
    \/ ~IsSome(nd.item)
    \/ ~TruthyNum(nd.qty)
    \/ ~TruthyStr(nd.address.cep)

onCallback(st, chatId, data, f) ==
    LET key == KeyOf(data)
        payload == PayloadOf(data)
        d == getDraft(st, chatId, f[1])
    IN  IF key = S_confirm /\ payload = S_yes
        THEN [st |-> mergeDraft(st, chatId, [step |-> "await_qty"], f[2], f[3]).st,
              reply |-> "ask_qty"]
        ELSE IF key = S_confirm /\ payload = S_no
        THEN [st |-> mergeDraft(st, chatId,
                         [item |-> None, step |-> "await_photo"], f[2], f[3]).st,
              reply |-> "send_other_photo"]
        ELSE IF key = S_qty /\ (payload = S_other \/ payload = S_range)
        THEN [st |-> mergeDraft(st, chatId, [step |-> "await_qty"], f[2], f[3]).st,
              reply |-> "type_qty"]
        ELSE IF key = S_qty
        THEN LET q == MathMax(1, MathMin(MAX_QTY, Number(payload)))
             IN  [st |-> mergeDraft(st, chatId,
                              [qty |-> Some(q), step |-> "await_cep"], f[2], f[3]).st,
                  reply |-> "qty_ok"]
        ELSE IF key = S_back /\ payload = S_days
        THEN [st |-> st, reply |-> "days_keyboard"]
        ELSE IF key = S_day
        THEN [st |-> mergeDraft(st, chatId,
                         [schedule |-> [d.schedule EXCEPT !.day = Some(payload)],
                          step |-> "await_time"], f[2], f[3]).st,
              reply |-> "choose_time"]
        ELSE IF key = S_time
        THEN LET parts == Split(payload, "T")
                 dayISO == parts[1]
                 time == IF Len(parts) >= 2 THEN Some(parts[2]) ELSE None
                 m == mergeDraft(st, chatId,
                          [schedule |-> [day |-> Some(dayISO), time |-> time]],
                          f[2], f[3])
             IN  [st |-> m.st,
                  reply |-> IF LostState(m.nd) THEN "lost_state"
                            ELSE IF validDate(dayISO) THEN "summary"
                            ELSE "threw"]
        ELSE IF key = S_cancel
        THEN [st |-> setDraft(st, chatId, InitialDraft, f[2]), reply |-> "cancelled"]
        ELSE [st |-> st, reply |-> "none"]

(***************************************************************************)
(* Free text (telegram.ts 464-562)                                         *)
(***************************************************************************)
\* txt.match(/^\s*(\d+)\s*(.*)$/) on trimmed text: the leading digits and the rest
NumberMatch(txt) ==
    LET n == DigitPrefixLen(txt)
    IN  IF n = 0 THEN None
        ELSE Some([numero |-> SubSeq(txt, 1, n),
                   rest |-> TrimLeft(SubSeq(txt, n + 1, Len(txt)))])

\* an Address that takes the street of a lookup answer but not its postal code
addrOfViaNoCep(v) ==
    [cep |-> None, logradouro |-> v.logradouro, bairro |-> v.bairro,
     localidade |-> v.localidade, uf |-> v.uf, numero |-> None,
     complemento |-> v.complemento]

\* the Address built from a lookup answer: its six fields and no number yet
addrOfVia(v) ==
    [cep |-> v.cep, logradouro |-> v.logradouro, bairro |-> v.bairro,
     localidade |-> v.localidade, uf |-> v.uf, numero |-> None,
     complemento |-> v.complemento]

onText(st, chatId, text, cls, via, f) ==
    LET txt == Trim(text)
        d == getDraft(st, chatId, f[1])
    IN  IF d.step = "name" \/ ~TruthyStr(d.user.name)
        THEN [st |-> mergeDraft(st, chatId,
                         [user |-> [d.user EXCEPT !.name = Some(txt)], step |-> "cpf"],
                         f[2], f[3]).st,
              reply |-> "ask_cpf"]
        ELSE IF d.step = "cpf" \/ (~TruthyStr(d.user.cpf) /\ TruthyStr(d.user.name))
        THEN LET cpf == onlyDigits(txt)
             IN  IF ~isValidCPF(cpf) THEN [st |-> st, reply |-> "cpf_invalid"]
                 ELSE [st |-> mergeDraft(st, chatId,
                                  [user |-> [d.user EXCEPT !.cpf = Some(cpfFmt(cpf))],
                                   step |-> "phone"], f[2], f[3]).st,
                       reply |-> "ask_phone"]
        ELSE IF d.step = "phone" \/ (~TruthyStr(d.user.phone) /\ TruthyStr(d.user.cpf))
        THEN IF ~isValidPhone(txt) THEN [st |-> st, reply |-> "phone_invalid"]
             ELSE LET m == mergeDraft(st, chatId,
                               [user |-> [d.user EXCEPT
                                             !.phone = Some(phoneFmt(onlyDigits(txt)))],
                                step |-> "await_photo"], f[2], f[3])
                  IN  IF IsSome(m.nd.latestFileId)
                      THEN LET h == handleImage(m.st, chatId, Val(m.nd.latestFileId),
                                                cls, f[4], f[5])
                           IN  [st |-> h.st,
                                reply |-> CASE h.err = "none" -> "detected"
                                            [] h.err = "timeout" -> "ai_timeout"
                                            [] OTHER -> "data_saved_send_photo"]
                      ELSE [st |-> m.st, reply |-> "data_saved"]
        ELSE IF d.step = "await_qty" /\ IsSome(d.item) /\ ~TruthyNum(d.qty)
        THEN LET q == Number(onlyDigits(txt))
             IN  IF q.nan \/ q.v <= 0 THEN [st |-> st, reply |-> "qty_invalid"]
                 ELSE [st |-> mergeDraft(st, chatId,
                                  [qty |-> Some(MathMin(MAX_QTY, q)), step |-> "await_cep"],
                                  f[2], f[3]).st,
                       reply |-> "ask_cep"]
        ELSE IF /\ d.step = "await_cep" /\ IsSome(d.item) /\ TruthyNum(d.qty)
                /\ ~TruthyStr(d.address.cep)
        THEN LET cep == onlyDigits(txt)
             IN  IF Len(cep) # 8 THEN [st |-> st, reply |-> "cep_invalid"]
                 ELSE IF via = "erro" THEN [st |-> st, reply |-> "cep_not_found"]
                 ELSE IF via # "found" THEN [st |-> st, reply |-> "cep_failed"]
                 ELSE [st |-> mergeDraft(st, chatId,
                                  [address |-> addrOfVia(ViaCEP(cep)),
                                   step |-> "await_number"], f[2], f[3]).st,
                       reply |-> "address_found"]
        ELSE IF /\ d.step = "await_number" /\ IsSome(d.item) /\ TruthyNum(d.qty)
                /\ TruthyStr(d.address.cep)
        THEN LET m == NumberMatch(txt)
             IN  IF ~IsSome(m) THEN [st |-> st, reply |-> "number_invalid"]
                 ELSE LET rest == Trim(Val(m).rest)
                      IN  [st |-> mergeDraft(st, chatId,
                                       [address |-> [d.address EXCEPT
                                            !.numero = Some(Val(m).numero),
                                            !.complemento =
                                                IF rest = <<>> THEN None ELSE Some(rest)],
                                        step |-> "await_day"], f[2], f[3]).st,
                           reply |-> "choose_day"]
        ELSE [st |-> st, reply |-> "follow_instructions"]


(***************************************************************************)
(* Inputs.  The events the environment delivers are drawn from these sets. *)
(***************************************************************************)
T_blank == <<" ">>
T_name == <<"A", "n", "a">>
T_cpf == <<"5", "2", "9", "9", "8", "2", "2", "4", "7", "2", "5">>
T_cep == <<"0", "1", "0", "0", "1", "-", "0", "0", "0", " ", "b">>

\* blank text; a name; 11 digits that are a valid national ID, a phone and a
\* quantity; 8 digits, a hyphen and a letter that are a postal code and an
\* address number with a complement
Texts == {T_blank, T_name, T_cpf, T_cep}

\* the number of distinct uploaded files
NumFiles == 1

FileIds == {<<"file", i>> : i \in 1..NumFiles}

Predictions == {[kind |-> "ok", label |-> "Battery", score |-> "0.91"]}

ClassifierOutcomes ==
    Predictions \cup
        {[kind |-> k, label |-> "", score |-> ""] : k \in ClassifierKinds \ {"ok"}}

\* a text event calls at most one collaborator (the classifier when the phone
\* is accepted, the lookup when a postal code is), so the outcome of the other
\* one is never read and is held fixed
TextOutcomes ==
    {[cls |-> c, via |-> "found"] : c \in ClassifierOutcomes}
        \cup {[cls |-> c, via |-> v] : c \in Predictions, v \in LookupKinds}

\* the day the model's calendar starts at
FirstDay == 16

T_0900 == <<"0", "9", ":", "0", "0">>
T_0730 == <<"0", "7", ":", "3", "0">>

\* selection codes: those of the keyboards shown on day (a subset), those of
\* the keyboards of the day before, and codes no keyboard ever carried
Datas(day) ==
    {S_confirm \o <<":">> \o S_yes, S_confirm \o <<":">> \o S_no,
     S_qty \o <<":", "3">>, S_qty \o <<":">> \o S_other,
     S_qty \o <<":">> \o S_range, S_qty \o <<":", "x">>,
     S_back \o <<":">> \o S_days,
     S_day \o <<":">> \o Iso(day), S_day \o <<":">> \o Iso(day - 1),
     S_time \o <<":">> \o Iso(day) \o <<"T">> \o T_0900,
     S_time \o <<":">> \o Iso(day) \o <<"T">> \o T_0730,
     S_time \o <<":", "x">>,
     S_cancel}

(***************************************************************************)
(* The two backends in detail (telegram.ts 39-117), with the clock and     *)
(* with what travels to and from the remote backend.  Time is counted in   *)
(* hours.  A JavaScript string that holds the JSON text of x is the record *)
(* [str |-> x]; an object is a record of its fields.                       *)
(***************************************************************************)
\* 60 * 60 * 2 seconds
DRAFT_TTL == 2

\* JSON null
JNull == [null |-> TRUE]

\* what JSON.parse(JSON.stringify(d)) is for a Draft d: a field that is
\* undefined is left out (it reads as undefined again), NaN becomes null
JsonOf(d) ==
    [d EXCEPT !.qty = IF IsSome(d.qty) /\ Val(d.qty).nan THEN Some(JNull) ELSE @]

JSONstringify(x) == [str |-> x]
JSONparse(s) == s.str
IsString(x) == "str" \in DOMAIN x

\* a Draft that JSON can carry: no number in it is NaN
JsonSerializable(d) == JsonOf(d) = d

\* a faulty variant of inMemoryStore.get: it never looks at exp
memGetIgnoresExp(m, key, t) ==
    IF ~IsSome(m[key]) THEN None ELSE Some(Val(m[key]).v)

\* inMemoryStore: an entry is the value and the time it expires at
memGet(m, key, t) ==
    IF ~IsSome(m[key]) THEN None
    ELSE IF t > Val(m[key]).exp THEN None
    ELSE Some(Val(m[key]).v)

\* get deletes an expired entry
memAfterGet(m, key, t) ==
    IF IsSome(m[key]) /\ t > Val(m[key]).exp THEN [m EXCEPT ![key] = None] ELSE m

memSet(m, key, value, ttlSec, t) ==
    [m EXCEPT ![key] = Some([v |-> value, exp |-> t + ttlSec])]

\* the body upstashStore.set posts to /set/{key}
setBody(value, ttlSec) ==
    JSONstringify([value |-> JSONstringify(JsonOf(value)), ex |-> ttlSec])

\* how the backend answers a get of a key it was posted body to: with the
\* encoded value alone (it read value and ex out of the body), with the
\* envelope as an object, or with the body as it was posted (it kept the body
\* as the value, the way a SET command given the body as its argument does)
ResultShapes == {"bare", "envelope", "body"}

resultOf(body, shape) ==
    CASE shape = "bare" -> JSONparse(body).value
      [] shape = "envelope" -> JSONparse(body)
      [] shape = "body" -> body

parseUpstashResult(result) ==
    IF IsString(result) THEN JSONparse(result)
    ELSE IF "value" \in DOMAIN result
    THEN IF IsString(result.value) THEN JSONparse(result.value) ELSE result.value
    ELSE result

\* upstashStore.get: a failed request gives undefined, so does a null result
upstashGet(r, key, shape, ok, t) ==
    IF ~ok \/ ~IsSome(r[key]) THEN None
    ELSE IF shape # "body" /\ t > Val(r[key]).at + JSONparse(Val(r[key]).body).ex
    THEN None
    ELSE Some(parseUpstashResult(resultOf(Val(r[key]).body, shape)))

\* upstashStore.set: a failed request leaves the backend as it was; beside
\* the body and the time, the entry remembers the value set was called with
upstashSet(r, key, value, ttlSec, ok, t) ==
    IF ok
    THEN [r EXCEPT ![key] =
             Some([body |-> setBody(value, ttlSec), at |-> t, v |-> value])]
    ELSE r

(***************************************************************************)
(* Overlapping events.  Two updates of one conversation can be in progress *)
(* at once (a duplicate delivery, two function instances); every await of  *)
(* a handler is a point where the other one can run.  The two handlers     *)
(* followed here are the ones that start with getDraft and one mergeDraft: *)
(* a photo (telegram.ts 315-320) and a text taken as the name (464-473).   *)
(***************************************************************************)
Procs == {1, 2}

NoEvent == [kind |-> "none", fileId |-> <<>>, text |-> <<>>]

IdleProc ==
    [pc |-> "idle", ev |-> NoEvent, d |-> InitialDraft, m |-> InitialDraft,
     wrote |-> None, clean |-> FALSE, rank |-> 0]

\* the partial a handler passes to mergeDraft, from the Draft d getDraft gave it
racePartial(ev, d) ==
    IF ev.kind = "photo" THEN [latestFileId |-> Some(ev.fileId)]
    ELSE [user |-> [d.user EXCEPT !.name = Some(Trim(ev.text))], step |-> "cpf"]

\* a faulty variant of the write of mergeDraft: it merges into the Draft the
\* store holds at the time of the write, not into the one read before
mergeSetOnCurrent(st, chatId, m, partial) ==
    setDraft(st, chatId, Spread(getDraft(st, chatId, TRUE), partial), TRUE)

\* the second half of mergeDraft: nd = { ...d, ...partial }; setDraft(nd)
mergeSet(st, chatId, m, partial) == setDraft(st, chatId, Spread(m, partial), TRUE)

(***************************************************************************)
(* State                                                                   *)
(***************************************************************************)
VARIABLES
    store,      \* key -> the value the configured backend holds (None: none)
    lastSet,    \* key -> the value of the latest store.set on it still in its
                \* TTL (under the clock: any set, with its hour)
    reply,      \* the latest event's kind (on), the reply it got (msg) and the
                \* step of the Draft it was processed against (from)
    today,      \* the current date (day of the month)
    cfg,        \* what is fixed at startup: the backend, the conversations
                \* that send events and the input alphabet
    now,        \* the clock, in hours
    mem,        \* the map of inMemoryStore: key -> the entry (None: none)
    remote,     \* the remote backend: key -> the body posted, the time it was
                \* posted at and the value it was made from
    got,        \* the latest store.get: its key, what it returned (val), the
                \* value of the latest set on the key (want), the hours since
                \* that set (age) and whether the backend took it (setOk)
    procs,      \* the events in progress when events overlap: for each, where
                \* it is (pc), the event (ev), the Draft getDraft gave it (d),
                \* the Draft mergeDraft read (m), what it set (wrote), whether
                \* mergeDraft read before any set (clean), and the place of
                \* its set among the sets (rank)
    probe,      \* a call of a function on its own: the function (fn), its
                \* input (in) and what it returned (out, None before the call)
    walk        \* the conversation walked from the first prompt to the
                \* summary: the step each of its events found the Draft in
                \* (steps) and what each event submitted (sent)

vars == <<store, lastSet, reply, today, cfg, now, mem, remote, got, procs, walk, probe>>

\* the state of the backends in detail
storeVars == <<now, mem, remote, got>>

\* the state of the conversations
botVars == <<store, lastSet, reply, today>>

St == [kv |-> store, sets |-> lastSet]

\* the Draft the next event of conversation c is processed against
DraftOf(c) == getDraft(St, c, TRUE)

\* the outcomes of the (at most five) store calls of one event: the
\* in-process map always answers, a call to the remote backend may fail
Oks ==
    IF cfg.backend = "memory" THEN {[i \in 1..5 |-> TRUE]} ELSE [1..5 -> BOOLEAN]

\* the input alphabet of the configuration
TextsIn == IF cfg.inputs = "full" THEN Texts ELSE {T_name, T_cpf}
DatasIn ==
    IF cfg.inputs = "full" THEN Datas(today)
    ELSE IF cfg.inputs = "small"
    THEN {S_confirm \o <<":">> \o S_yes, S_qty \o <<":", "3">>, S_cancel}
    ELSE {S_confirm \o <<":">> \o S_yes, S_cancel}
ClassifierIn ==
    IF cfg.inputs = "full" THEN ClassifierOutcomes
    ELSE {o \in ClassifierOutcomes : o.kind \in {"ok", "error"}}
TextOutcomesIn ==
    IF cfg.inputs = "full" THEN TextOutcomes
    ELSE {[cls |-> c, via |-> "found"] : c \in ClassifierIn}

\* the events of a conversation that goes from the first prompt to the summary
WalkEvents ==
    <<"name", "cpf", "phone", "upload", "confirm", "qty", "cep", "number",
      "day", "time">>

\* an event of kind on of conversation c with result r
Apply(on, c, r) ==
    /\ store' = r.st.kv
    /\ lastSet' = r.st.sets
    /\ reply' = [on |-> on, msg |-> r.reply, from |-> DraftOf(c).step]
    /\ UNCHANGED <<today, cfg, procs, walk, probe>>
    /\ UNCHANGED storeVars

InitBase(backend, inputs, chats) ==
    /\ store = [k \in Keys |-> None]
    /\ lastSet = [k \in Keys |-> None]
    /\ reply = [on |-> "none", msg |-> "none", from |-> "name"]
    /\ today = FirstDay
    /\ cfg = [backend |-> backend, chats |-> chats, inputs |-> inputs]
    /\ now = 0
    /\ mem = [k \in Keys |-> None]
    /\ remote = [k \in Keys |-> None]
    /\ got = [on |-> "none", key |-> draftKey(1), val |-> None, want |-> None,
              age |-> 0, setOk |-> FALSE]
    /\ procs = [p \in Procs |-> IdleProc]
    /\ walk = [steps |-> <<>>, sent |-> [e \in Range(WalkEvents) |-> None]]

\* no function is called on its own
NoProbe == [fn |-> "none", in |-> None, out |-> None]

\* one conversation sends events
InitWith(backend, inputs) ==
    /\ InitBase(backend, inputs, {1})
    /\ probe = NoProbe

\* UPSTASH_REDIS_REST_URL or _TOKEN unset: the in-process store
Init == InitWith("memory", "full")

\* both set: the remote store
InitUpstash == InitWith("upstash", "small")

CmdStart == \E c \in cfg.chats, f \in Oks : Apply("start", c, onStart(St, c, f))

CmdCancel == \E c \in cfg.chats, f \in Oks : Apply("cancel", c, onCancel(St, c, f))

PhotoMessage ==
    \E c \in cfg.chats, fileId \in FileIds, cls \in ClassifierIn, f \in Oks :
        Apply("photo", c, onPhoto(St, c, fileId, cls, f))

DocumentMessage ==
    \E c \in cfg.chats, isImage \in BOOLEAN, fileId \in FileIds,
       cls \in ClassifierIn, f \in Oks :
        Apply("document", c, onDocument(St, c, isImage, fileId, cls, f))

CallbackQuery ==
    \E c \in cfg.chats, data \in DatasIn, f \in Oks :
        Apply("callback", c, onCallback(St, c, data, f))

TextMessage ==
    \E c \in cfg.chats, text \in TextsIn, ext \in TextOutcomesIn, f \in Oks :
        Apply("text", c, onText(St, c, text, ext.cls, ext.via, f))

\* the TTL of a stored value elapses: the next get finds nothing
Expire ==
    \E k \in Keys :
        /\ IsSome(store[k]) \/ IsSome(lastSet[k])
        /\ store' = [store EXCEPT ![k] = None]
        /\ lastSet' = [lastSet EXCEPT ![k] = None]
        /\ UNCHANGED <<reply, today, cfg, procs, walk, probe>>
        /\ UNCHANGED storeVars

Next ==
    \/ CmdStart
    \/ CmdCancel
    \/ PhotoMessage
    \/ DocumentMessage
    \/ CallbackQuery
    \/ TextMessage
    \/ Expire

\* the bot with the in-process store, one conversation, events one at a time
Spec == Init /\ [][Next]_vars

\* the bot with the remote store, whose calls may fail
SpecUpstash == InitUpstash /\ [][Next]_vars

(***************************************************************************)
(* The store on its own: sets and gets of Drafts on one key, under the     *)
(* clock, against the in-process map or against the remote backend.        *)
(***************************************************************************)
\* the hour the model's clock stops at
MaxNow == 4

\* Drafts to store: the initial one, one with a name and a stashed upload,
\* one with an item and a quantity, one whose quantity is NaN
StoreDrafts ==
    {InitialDraft,
     Spread(InitialDraft, [step |-> "cpf",
                           user |-> [EmptyUser EXCEPT !.name = Some(T_name)],
                           latestFileId |-> Some(<<"file", 1>>)]),
     Spread(InitialDraft, [step |-> "await_cep",
                           item |-> Some([label |-> "Battery", score |-> "0.91"]),
                           qty |-> Some(Num(3))]),
     Spread(InitialDraft, [step |-> "await_cep", qty |-> Some(NaN)])}

\* either backend may be the configured one
InitStore ==
    /\ \E backend \in {"memory", "upstash"} : InitWith(backend, "small")

\* setDraft(chatId, draft): store.set(draftKey(chatId), draft, DRAFT_TTL).
\* lastSet remembers the value, the hour and whether the backend took it.
StoreSet ==
    \E c \in cfg.chats, d \in StoreDrafts, ok \in BOOLEAN :
        /\ cfg.backend = "memory" => ok
        /\ IF cfg.backend = "memory"
           THEN /\ mem' = memSet(mem, draftKey(c), d, DRAFT_TTL, now)
                /\ UNCHANGED remote
           ELSE /\ remote' = upstashSet(remote, draftKey(c), d, DRAFT_TTL, ok, now)
                /\ UNCHANGED mem
        /\ lastSet' = [lastSet EXCEPT ![draftKey(c)] =
                          Some([v |-> d, at |-> now, ok |-> ok])]
        /\ got' = [got EXCEPT !.on = IF ok THEN "set" ELSE "set_failed"]
        /\ UNCHANGED <<store, reply, today, cfg, now, procs, walk, probe>>

\* store.get(draftKey(chatId))
StoreGet ==
    \E c \in cfg.chats, shape \in ResultShapes, ok \in BOOLEAN :
        LET key == draftKey(c)
            val == IF cfg.backend = "memory" THEN memGet(mem, key, now)
                   ELSE upstashGet(remote, key, shape, ok, now)
        IN  /\ cfg.backend = "memory" => (ok /\ shape = "bare")
            /\ got' = [on |-> IF ok THEN "get" ELSE "get_failed",
                       key |-> key, val |-> val,
                       want |-> IF IsSome(lastSet[key])
                                THEN Some(Val(lastSet[key]).v) ELSE None,
                       age |-> IF IsSome(lastSet[key])
                               THEN now - Val(lastSet[key]).at ELSE 0,
                       setOk |-> IsSome(lastSet[key]) /\ Val(lastSet[key]).ok]
            /\ mem' = IF cfg.backend = "memory" THEN memAfterGet(mem, key, now)
                      ELSE mem
            /\ UNCHANGED <<store, lastSet, reply, today, cfg, now, remote, procs, walk, probe>>

\* an hour passes
Tick ==
    /\ now < MaxNow
    /\ now' = now + 1
    /\ UNCHANGED <<store, lastSet, reply, today, cfg, mem, remote, got, procs, walk, probe>>

NextStore == StoreSet \/ StoreGet \/ Tick

SpecStore == InitStore /\ [][NextStore]_vars

(***************************************************************************)
(* Two events of one conversation in progress at once, each taking its     *)
(* steps (getDraft, the get of mergeDraft, the set of mergeDraft) in its   *)
(* own time, over the in-process store.                                    *)
(***************************************************************************)
RaceEvents ==
    {[kind |-> "photo", fileId |-> fid, text |-> <<>>] : fid \in FileIds}
        \cup {[kind |-> "text", fileId |-> <<>>, text |-> t] : t \in {T_name, T_cpf}}

\* the conversation the overlapping events belong to
RaceChat == CHOOSE c \in cfg.chats : TRUE

\* the update arrives and the handler runs up to its getDraft; a text is
\* followed only where the handler takes it as the name
RaceStart(p) ==
    \E ev \in RaceEvents :
        LET d == getDraft(St, RaceChat, TRUE)
        IN  /\ procs[p].pc = "idle"
            /\ ev.kind = "text" => (d.step = "name" \/ ~TruthyStr(d.user.name))
            /\ procs' = [procs EXCEPT ![p] =
                            [IdleProc EXCEPT !.pc = "merge_get", !.ev = ev, !.d = d]]
            /\ UNCHANGED <<store, lastSet, reply, today, cfg, walk, probe>>
            /\ UNCHANGED storeVars

\* const d = await getDraft(chatId) inside mergeDraft
RaceMergeGet(p) ==
    /\ procs[p].pc = "merge_get"
    /\ procs' = [procs EXCEPT ![p].pc = "merge_set",
                              ![p].m = getDraft(St, RaceChat, TRUE),
                              ![p].clean = \A q \in Procs : procs[q].rank = 0]
    /\ UNCHANGED <<store, lastSet, reply, today, cfg, walk, probe>>
    /\ UNCHANGED storeVars

\* await setDraft(chatId, nd) inside mergeDraft; the handler then replies
RaceMergeSet(p) ==
    LET st == mergeSet(St, RaceChat, procs[p].m, racePartial(procs[p].ev, procs[p].d))
    IN  /\ procs[p].pc = "merge_set"
        /\ store' = st.kv
        /\ lastSet' = st.sets
        /\ procs' = [procs EXCEPT
                        ![p].pc = "done",
                        ![p].wrote = st.sets[draftKey(RaceChat)],
                        ![p].rank = 1 + Cardinality({q \in Procs : procs[q].rank > 0})]
        /\ reply' = [on |-> procs[p].ev.kind,
                     msg |-> IF procs[p].ev.kind = "text" THEN "ask_cpf" ELSE "need_name",
                     from |-> procs[p].d.step]
        /\ UNCHANGED <<today, cfg, walk, probe>>
        /\ UNCHANGED storeVars

NextRace ==
    \E p \in Procs : RaceStart(p) \/ RaceMergeGet(p) \/ RaceMergeSet(p)

SpecRace == Init /\ [][NextRace]_vars

(***************************************************************************)
(* One conversation from the first prompt to the summary: the events of    *)
(* WalkEvents in their order, each with an input its step accepts.         *)
(***************************************************************************)
\* the largest quantity on the keyboard of quantities
KB_QTY_MAX == 6

T_number == <<"1", "2", " ", "b">>

\* the event e of the walk, handled by handler on with result r, submitting value
WalkSend(e, on, c, r, value) ==
    /\ Len(walk.steps) < Len(WalkEvents)
    /\ WalkEvents[Len(walk.steps) + 1] = e
    /\ store' = r.st.kv
    /\ lastSet' = r.st.sets
    /\ reply' = [on |-> on, msg |-> r.reply, from |-> DraftOf(c).step]
    /\ walk' = [steps |-> Append(walk.steps, DraftOf(c).step),
                sent |-> [walk.sent EXCEPT ![e] = Some(value)]]
    /\ UNCHANGED <<today, cfg, procs, probe>>
    /\ UNCHANGED storeVars

\* the text event e of the walk; the lookup, if it makes one, finds the address
WalkText(e, c, text, cls, f) ==
    WalkSend(e, "text", c, onText(St, c, text, cls, "found", f), text)

WalkName ==
    \E c \in cfg.chats, text \in {T_name, <<" ">> \o T_name}, cls \in Predictions, f \in Oks :
        WalkText("name", c, text, cls, f)

WalkCpf ==
    \E c \in cfg.chats, text \in {T_cpf, cpfFmt(T_cpf)}, cls \in Predictions, f \in Oks :
        WalkText("cpf", c, text, cls, f)

WalkPhone ==
    \E c \in cfg.chats, text \in {T_cpf, Slice(T_cpf, 0, Len(T_cpf) - 1)}, cls \in Predictions, f \in Oks :
        WalkText("phone", c, text, cls, f)

WalkUpload ==
    \E c \in cfg.chats, fileId \in FileIds, cls \in Predictions, f \in Oks :
        \/ WalkSend("upload", "photo", c, onPhoto(St, c, fileId, cls, f), cls)
        \/ WalkSend("upload", "document", c,
                    onDocument(St, c, TRUE, fileId, cls, f), cls)

WalkConfirm ==
    \E c \in cfg.chats, f \in Oks :
        WalkSend("confirm", "callback", c,
                 onCallback(St, c, S_confirm \o <<":">> \o S_yes, f), S_yes)

WalkQty ==
    \E c \in cfg.chats, q \in 1..KB_QTY_MAX, cls \in Predictions, f \in Oks :
        \/ WalkSend("qty", "text", c,
                    onText(St, c, <<DigitChar(q)>>, cls, "found", f), q)
        \/ WalkSend("qty", "callback", c,
                    onCallback(St, c, S_qty \o <<":", DigitChar(q)>>, f), q)

WalkCep ==
    \E c \in cfg.chats, text \in {T_cep}, cls \in Predictions, f \in Oks :
        WalkText("cep", c, text, cls, f)

WalkNumber ==
    \E c \in cfg.chats, text \in {T_number}, cls \in Predictions, f \in Oks :
        WalkText("number", c, text, cls, f)

WalkDay ==
    \E c \in cfg.chats, data \in kbDays(today), f \in Oks :
        WalkSend("day", "callback", c, onCallback(St, c, data, f), PayloadOf(data))

\* a button of the keyboard of times shown for the day stored
WalkTime ==
    \E c \in cfg.chats, f \in Oks :
        /\ IsSome(DraftOf(c).schedule.day)
        /\ \E data \in kbTimes(Val(DraftOf(c).schedule.day)) :
              WalkSend("time", "callback", c, onCallback(St, c, data, f),
                       PayloadOf(data))

NextWalk ==
    \/ WalkName
    \/ WalkCpf
    \/ WalkPhone
    \/ WalkUpload
    \/ WalkConfirm
    \/ WalkQty
    \/ WalkCep
    \/ WalkNumber
    \/ WalkDay
    \/ WalkTime

SpecWalk == Init /\ [][NextWalk]_vars

(***************************************************************************)
(* Two conversations with one bot: the events of both, one at a time.      *)
(***************************************************************************)
InitTwo ==
    /\ InitBase("memory", "least", Chats)
    /\ probe = NoProbe

SpecTwo == InitTwo /\ [][Next]_vars

(***************************************************************************)
(* The validator of national IDs called on its own.                        *)
(***************************************************************************)
\* nine leading digits: those of 529.982.247-25, two whose weighted sums give
\* the remainder 10 (for the first and for the second check digit), and nine
\* identical digits
CpfBases ==
    {<<"5", "2", "9", "9", "8", "2", "2", "4", "7">>,
     <<"1", "2", "3", "4", "5", "6", "7", "8", "9">>,
     <<"9", "8", "7", "6", "5", "4", "3", "2", "1">>,
     <<"1", "1", "1", "1", "1", "1", "1", "1", "1">>}

\* every base with every pair of check digits; the same with the punctuation of
\* a formatted ID; strings of 10 and of 12 digits; no digit at all
CpfInputs ==
    LET eleven == {b \o <<x, y>> : b \in CpfBases, x \in Digits, y \in Digits}
    IN  eleven
          \cup {cpfFmt(c) : c \in eleven}
          \cup CpfBases
          \cup {b \o <<"0">> : b \in CpfBases}
          \cup {b \o <<"2", "5", "0">> : b \in CpfBases}
          \cup {<<>>, <<"a", "b">>}

allButProbe ==
    <<store, lastSet, reply, today, cfg, now, mem, remote, got, procs, walk>>

InitCpf ==
    /\ InitBase("memory", "small", {1})
    /\ \E cpfRaw \in CpfInputs :
          probe = [fn |-> "isValidCPF", in |-> Some(cpfRaw), out |-> None]

CallIsValidCPF ==
    /\ probe.fn = "isValidCPF"
    /\ probe.out = None
    /\ probe' = [probe EXCEPT !.out = Some(isValidCPF(Val(probe.in)))]
    /\ UNCHANGED allButProbe

NextCpf == CallIsValidCPF

SpecCpf == InitCpf /\ [][NextCpf]_vars

(***************************************************************************)
(* The day catalog called on its own (telegram.ts 216-224), on a calendar  *)
(* of years, months and days.  new Date() is the process's clock;          *)
(* getDate and setDate read and write it in the process's time zone,       *)
(* toISOString prints it in UTC.                                           *)
(***************************************************************************)
\* the largest n the catalog is called with
MaxDays == 8

IsLeap(y) == (y % 4 = 0 /\ y % 100 # 0) \/ y % 400 = 0

DaysIn(y, m) ==
    IF m = 2 THEN (IF IsLeap(y) THEN 29 ELSE 28)
    ELSE IF m \in {4, 6, 9, 11} THEN 30 ELSE 31

\* d.setDate(dd) for dd >= 1: days past the end of the month run into the
\* months after it
RECURSIVE setDate(_, _)
setDate(date, dd) ==
    IF dd <= DaysIn(date.y, date.m) THEN [date EXCEPT !.d = dd]
    ELSE setDate([y |-> IF date.m = 12 THEN date.y + 1 ELSE date.y,
                  m |-> IF date.m = 12 THEN 1 ELSE date.m + 1,
                  d |-> 1],
                 dd - DaysIn(date.y, date.m))

DateNum(date) == (date.y * 100 + date.m) * 100 + date.d

\* the process's time zones: UTC, one behind UTC that has no summer time, one
\* that has it (in 2025 from 30 March 01:00 to 26 October 02:00, local time)
Zones == {"UTC", "America/Sao_Paulo", "Europe/London"}

\* hours to add to UTC to get the zone's time, at a local date and hour
OffsetAt(zone, date, hour) ==
    CASE zone = "UTC" -> 0
      [] zone = "America/Sao_Paulo" -> 0 - 3
      [] zone = "Europe/London" ->
            LET after(m, d, h) ==
                    \/ DateNum(date) > DateNum([y |-> 2025, m |-> m, d |-> d])
                    \/ DateNum(date) = DateNum([y |-> 2025, m |-> m, d |-> d])
                         /\ hour >= h
            IN  IF after(3, 30, 2) /\ ~after(10, 26, 2) THEN 1 ELSE 0

\* the UTC date of a local date and hour
utcDate(zone, date, hour) ==
    LET h == hour - OffsetAt(zone, date, hour)
    IN  IF h >= 24 THEN setDate(date, date.d + 1)
        ELSE IF h >= 0 THEN date
        ELSE IF date.d > 1 THEN [date EXCEPT !.d = date.d - 1]
        ELSE IF date.m > 1
        THEN [y |-> date.y, m |-> date.m - 1, d |-> DaysIn(date.y, date.m - 1)]
        ELSE [y |-> date.y - 1, m |-> 12, d |-> 31]

TwoDigits(n) == <<DigitChar(n \div 10), DigitChar(n % 10)>>

\* d.toISOString().slice(0, 10)
IsoDate(date) ==
    TwoDigits(date.y \div 100) \o TwoDigits(date.y % 100) \o <<"-">>
        \o TwoDigits(date.m) \o <<"-">> \o TwoDigits(date.d)

\* nextDays(n) at a clock: the iso of each entry
nextDaysAt(n, clock) ==
    [k \in 1..n |->
        LET d == setDate(clock.date, clock.date.d + (k - 1))
        IN  IsoDate(utcDate(clock.zone, d, clock.hour))]

\* clocks: in two years, one of them a leap year, the first, the middle and
\* the last days of every month, early, at noon and late; the zone with
\* summer time in the year its rule is given for
Clocks ==
    {[date |-> [y |-> y, m |-> m, d |-> d], hour |-> h, zone |-> z] :
        y \in {2024, 2025}, m \in 1..12, d \in {1, 15} \cup 25..31,
        h \in {0, 12, 22}, z \in Zones}

InitDays ==
    /\ InitBase("memory", "small", {1})
    /\ \E clock \in Clocks :
          /\ clock.date.d <= DaysIn(clock.date.y, clock.date.m)
          /\ clock.zone = "Europe/London" => clock.date.y = 2025
          /\ probe = [fn |-> "nextDays", in |-> Some(clock), out |-> None]

CallNextDays ==
    /\ probe.fn = "nextDays"
    /\ probe.out = None
    /\ \E n \in 1..MaxDays :
          probe' = [probe EXCEPT !.out = Some(nextDaysAt(n, Val(probe.in)))]
    /\ UNCHANGED allButProbe

NextDays == CallNextDays

SpecDays == InitDays /\ [][NextDays]_vars

\* what the summary is built from: the fields of the merged Draft it prints
resumo(nd) ==
    [name |-> nd.user.name, cpf |-> nd.user.cpf, phone |-> nd.user.phone,
     item |-> Val(nd.item).label, qty |-> nd.qty, address |-> nd.address,
     day |-> nd.schedule.day, time |-> nd.schedule.time]

(***************************************************************************)
(* Properties                                                              *)
(***************************************************************************)
StepIdx(step) == CHOOSE i \in 1..Len(Steps) : Steps[i] = step

\* name, national ID and phone are all there
ProfileComplete(d) ==
    TruthyStr(d.user.name) /\ TruthyStr(d.user.cpf) /\ TruthyStr(d.user.phone)

\* C1: a time selection from the keyboard of today, processed in step
\* await_time when name, national ID, phone, item, quantity and postal code are
\* all present, gets the summary and leaves the persisted Draft reset to the
\* initial Draft.
C1_SummaryResetsDraft ==
    [][\A c \in cfg.chats, f \in Oks, data \in kbTimes(Iso(today)) :
          (/\ ~LostState(DraftOf(c))
           /\ DraftOf(c).step = "await_time"
           /\ Apply("callback", c, onCallback(St, c, data, f)))
             => (reply'.msg = "summary" /\ DraftOf(c)' = InitialDraft)]_vars

\* the Draft that the next event of conversation c is processed against
\* after an event with result r
After(r, c) == getDraft(r.st, c, TRUE)

\* C2: from every reachable Draft, the /cancel command and the cancel
\* selection leave the persisted Draft equal to the initial Draft (step name,
\* user, address and schedule empty, no item, quantity or stashed media).
C2_CancelResets ==
    \A c \in cfg.chats, f \in Oks :
        /\ onCancel(St, c, f).st.kv[draftKey(c)] = Some(InitialDraft)
        /\ onCallback(St, c, S_cancel, f).st.kv[draftKey(c)] = Some(InitialDraft)

\* a cancel selection has been processed against a Draft in step await_time
\* and the persisted Draft is initial
C2_Witness ==
    /\ reply = [on |-> "callback", msg |-> "cancelled", from |-> "await_time"]
    /\ \E c \in cfg.chats : store[draftKey(c)] = Some(InitialDraft)

\* the text fails the validation of the state the Draft is in
FailsValidation(d, txt) ==
    \/ d.step = "cpf" /\ ~isValidCPF(txt)
    \/ d.step = "phone" /\ ~isValidPhone(txt)
    \/ d.step = "await_qty" /\ Number(onlyDigits(txt)).v <= 0
    \/ d.step = "await_cep" /\ Len(onlyDigits(txt)) # 8
    \/ d.step = "await_number" /\ DigitPrefixLen(txt) = 0

\* C3: a text event that fails the validation of the current state leaves
\* the persisted Draft, step included, exactly as it was.
C3_InvalidTextKeepsDraft ==
    [][\A c \in cfg.chats, f \in Oks, text \in TextsIn, ext \in TextOutcomesIn :
          (/\ FailsValidation(DraftOf(c), Trim(text))
           /\ Apply("text", c, onText(St, c, text, ext.cls, ext.via, f)))
             => store' = store]_vars

\* the kind of a selection code: confirm, qty, day, time, or another one
SelKind(data) ==
    LET key == KeyOf(data)
    IN  CASE key = S_confirm -> "confirm" [] key = S_qty -> "qty"
          [] key = S_day -> "day" [] key = S_time -> "time" [] OTHER -> "other"

\* the event kinds a state accepts
Accepts(step, kind) ==
    CASE step \in {"name", "cpf", "phone", "await_cep", "await_number"} -> kind = "text"
      [] step = "await_photo" -> kind = "media"
      [] step = "await_confirm" -> kind = "confirm"
      [] step = "await_qty" -> kind \in {"text", "qty"}
      [] step = "await_day" -> kind = "day"
      [] step = "await_time" -> kind = "time"

\* C4: an event whose kind the current state does not accept leaves the
\* persisted Draft unchanged; the one exception is a media upload while the
\* profile is incomplete, which changes the stashed media reference alone.
C4_MismatchKeepsDraft ==
    [][\A c \in cfg.chats, f \in Oks :
          /\ \A data \in DatasIn :
                (/\ SelKind(data) # "other"
                 /\ ~Accepts(DraftOf(c).step, SelKind(data))
                 /\ Apply("callback", c, onCallback(St, c, data, f)))
                   => store' = store
          /\ \A fileId \in FileIds, cls \in ClassifierIn :
                (/\ ~Accepts(DraftOf(c).step, "media")
                 /\ \/ Apply("photo", c, onPhoto(St, c, fileId, cls, f))
                    \/ Apply("document", c, onDocument(St, c, TRUE, fileId, cls, f)))
                   => IF ProfileComplete(DraftOf(c)) THEN store' = store
                      ELSE DraftOf(c)' =
                              [DraftOf(c) EXCEPT !.latestFileId = Some(fileId)]
          /\ \A text \in TextsIn, ext \in TextOutcomesIn :
                (/\ ~Accepts(DraftOf(c).step, "text")
                 /\ Apply("text", c, onText(St, c, text, ext.cls, ext.via, f)))
                   => store' = store]_vars

\* C5: every change of step moves to a later state of the order name, cpf,
\* phone, await_photo, ..., await_time, or sets step to name (the move from
\* await_confirm back to await_photo that the transition table gives the
\* rejection of an item is left aside).
C5_StepForwardOrReset ==
    [][\A c \in cfg.chats :
          (/\ DraftOf(c)'.step # DraftOf(c).step
           /\ reply'.msg # "send_other_photo")
             => \/ StepIdx(DraftOf(c)'.step) > StepIdx(DraftOf(c).step)
                \/ DraftOf(c)'.step = "name"]_vars

\* some field of the address is there
HasAddress(d) == \E k \in DOMAIN d.address : IsSome(d.address[k])

\* C6: in every persisted Draft qty is present only if item is, address
\* fields only if qty is, and a schedule day or time only if the postal code
\* and the number are.
C6_PrerequisitesPresent ==
    \A c \in cfg.chats :
        LET d == DraftOf(c)
        IN  /\ IsSome(d.qty) => IsSome(d.item)
            /\ HasAddress(d) => IsSome(d.qty)
            /\ (IsSome(d.schedule.day) \/ IsSome(d.schedule.time))
                  => (IsSome(d.address.cep) /\ IsSome(d.address.numero))

\* C7: a day selection processed in step await_day whose value is not one of
\* the 7 dates the catalog generates when the event is processed is rejected:
\* the Draft stays as it was.
C7_DayOutsideCatalogRejected ==
    [][\A c \in cfg.chats, f \in Oks, data \in DatasIn :
          (/\ KeyOf(data) = S_day
           /\ DraftOf(c).step = "await_day"
           /\ PayloadOf(data) \notin Range(nextDays(7, today))
           /\ Apply("callback", c, onCallback(St, c, data, f)))
             => store' = store]_vars

\* the time value of a time selection's payload (none without a "T")
TimeOf(payload) ==
    IF Len(Split(payload, "T")) >= 2 THEN Some(Split(payload, "T")[2]) ELSE None

\* C8: a time selection processed in step await_time is accepted only if its
\* time value is one of the catalog slots 09:00, 11:00, 14:00, 16:00, 18:00:
\* with any other value the Draft stays as it was, so that schedule.time, when
\* present, is a catalog slot.
C8_TimeIsCatalogSlot ==
    [][\A c \in cfg.chats, f \in Oks, data \in DatasIn :
          (/\ KeyOf(data) = S_time
           /\ DraftOf(c).step = "await_time"
           /\ IsSome(TimeOf(PayloadOf(data)))
           /\ Val(TimeOf(PayloadOf(data))) \notin Range(TIME_SLOTS)
           /\ Apply("callback", c, onCallback(St, c, data, f)))
             => store' = store]_vars

\* C9: a media upload with an incomplete profile stores its reference; the
\* text events of the profile steps keep it; and the text event that gets the
\* phone accepted, when the classifier answers with a prediction, ends with
\* step await_confirm, the item set and the same reference in the Draft.
C9_StashClassifiedAtPhone ==
    \A c \in cfg.chats, f \in Oks :
        LET d == DraftOf(c)
        IN  ~ProfileComplete(d) =>
              /\ \A fileId \in FileIds, cls \in ClassifierIn :
                    /\ After(onPhoto(St, c, fileId, cls, f), c).latestFileId
                          = Some(fileId)
                    /\ After(onDocument(St, c, TRUE, fileId, cls, f), c).latestFileId
                          = Some(fileId)
              /\ IsSome(d.latestFileId) =>
                    \A text \in TextsIn, ext \in TextOutcomesIn :
                        LET r == onText(St, c, text, ext.cls, ext.via, f)
                        IN  /\ After(r, c).latestFileId = d.latestFileId
                            /\ (ProfileComplete(After(r, c)) /\ ext.cls.kind = "ok")
                                  => /\ After(r, c).step = "await_confirm"
                                     /\ After(r, c).item =
                                           Some([label |-> ext.cls.label,
                                                 score |-> ext.cls.score])
                                     /\ r.reply = "detected"

\* the phone was just accepted by a text event and the stashed upload was
\* classified within it
C9_Witness ==
    /\ reply = [on |-> "text", msg |-> "detected", from |-> "phone"]
    /\ \E c \in cfg.chats :
          /\ DraftOf(c).step = "await_confirm"
          /\ IsSome(DraftOf(c).item)
          /\ IsSome(DraftOf(c).latestFileId)
          /\ ProfileComplete(DraftOf(c))

\* C10: with the remote backend configured, the value of the latest set on a
\* key (within its TTL) is what a get on that key returns, whether or not the
\* calls to the backend succeed.
C10_FallbackTakesOver ==
    \A c \in cfg.chats, ok \in Oks :
        IsSome(lastSet[draftKey(c)])
           => storeGet(St, draftKey(c), ok[1]) = lastSet[draftKey(c)]

\* C11: a get that comes after a set of a JSON-serializable Draft on the same
\* key, before the TTL of that set has elapsed and with no other set between,
\* returns a value equal to the Draft: in the in-process store, and in the
\* remote store whichever shape the backend answers in.
C11_RoundTrip ==
    (/\ got.on = "get"
     /\ got.setOk
     /\ got.age <= DRAFT_TTL
     /\ JsonSerializable(Val(got.want)))
        => got.val = got.want

\* the Drafts the next events are processed against, as the in-process map
\* gives them at this hour
MemView == [kv |-> [k \in Keys |-> memGet(mem, k, now)], sets |-> lastSet]

Ranked(n) == CHOOSE p \in Procs : procs[p].rank = n

\* C13: when two events of one conversation have both finished and the get
\* of each one's mergeDraft came before the set of either, the persisted Draft
\* is the value written by the later set, and every field that only the
\* earlier set wrote has the value it had before the two events, not the
\* value the earlier event wrote.
C13_LaterWriteWins ==
    (\A p \in Procs : procs[p].pc = "done" /\ procs[p].clean)
        => LET early == procs[Ranked(1)]
               late == procs[Ranked(2)]
               now_ == DraftOf(RaceChat)
           IN  /\ store[draftKey(RaceChat)] = late.wrote
               /\ \A k \in DOMAIN racePartial(early.ev, early.d)
                            \ DOMAIN racePartial(late.ev, late.d) :
                     /\ now_[k] = late.m[k]
                     /\ now_[k] # Val(early.wrote)[k]

\* a photo and a name were handled at once, both read before either wrote, the
\* photo's set came first: the name is stored and the photo's reference is not
C13_Witness ==
    /\ \A p \in Procs : procs[p].pc = "done" /\ procs[p].clean
    /\ procs[Ranked(1)].ev.kind = "photo"
    /\ procs[Ranked(2)].ev.kind = "text"
    /\ IsSome(Val(procs[Ranked(1)].wrote).latestFileId)
    /\ ~IsSome(DraftOf(RaceChat).latestFileId)
    /\ TruthyStr(DraftOf(RaceChat).user.name)


\* C14: when a photo or an image document is handled with a complete profile
\* and the classifier fails, times out or returns no prediction, the reply is
\* a failure message and step and item are what they were; the same upload
\* sent again, when the classifier then answers, is classified: step
\* await_confirm and the item set.
C14_ClassifierFailureKeepsStep ==
    \A c \in cfg.chats, f \in Oks, fileId \in FileIds :
        LET d == DraftOf(c)
        IN  ProfileComplete(d) =>
              \A cls \in {o \in ClassifierIn : o.kind # "ok"}, isDoc \in BOOLEAN :
                  LET r == IF isDoc THEN onDocument(St, c, TRUE, fileId, cls, f)
                           ELSE onPhoto(St, c, fileId, cls, f)
                  IN  /\ r.reply = IF cls.kind = "timeout" THEN "ai_timeout"
                                   ELSE IF isDoc THEN "document_failed"
                                   ELSE "photo_failed"
                      /\ After(r, c).step = d.step
                      /\ After(r, c).item = d.item
                      /\ \A again \in Predictions :
                            LET r2 == IF isDoc
                                      THEN onDocument(r.st, c, TRUE, fileId, again, f)
                                      ELSE onPhoto(r.st, c, fileId, again, f)
                            IN  /\ r2.reply = "detected"
                                /\ After(r2, c).step = "await_confirm"
                                /\ After(r2, c).item =
                                      Some([label |-> again.label,
                                            score |-> again.score])

\* a photo sent in step await_photo with a complete profile got the failure
\* message and the Draft is still in await_photo with no item
C14_Witness ==
    /\ reply = [on |-> "photo", msg |-> "photo_failed", from |-> "await_photo"]
    /\ \E c \in cfg.chats :
          /\ ProfileComplete(DraftOf(c))
          /\ DraftOf(c).step = "await_photo"
          /\ ~IsSome(DraftOf(c).item)


\* a text with which the handler calls the postal lookup
CallsLookup(d, text) ==
    /\ TruthyStr(d.user.name) /\ TruthyStr(d.user.cpf) /\ TruthyStr(d.user.phone)
    /\ d.step = "await_cep" /\ IsSome(d.item) /\ TruthyNum(d.qty)
    /\ ~TruthyStr(d.address.cep)
    /\ Len(onlyDigits(Trim(text))) = 8

\* C15: the reply to a timeout of an external call differs from the reply to
\* any other failure of the same call: of the classifier when a photo or an
\* image document is handled with a complete profile, and of the postal
\* lookup when an 8-digit code is sent in await_cep.
C15_TimeoutReplyDistinct ==
    \A c \in cfg.chats, f \in Oks :
        LET d == DraftOf(c)
            timeout == [kind |-> "timeout", label |-> "", score |-> ""]
            ok == CHOOSE o \in Predictions : TRUE
        IN  /\ ProfileComplete(d) =>
                  \A fileId \in FileIds,
                     other \in {o \in ClassifierOutcomes : o.kind \notin {"ok", "timeout"}} :
                      /\ onPhoto(St, c, fileId, timeout, f).reply
                            # onPhoto(St, c, fileId, other, f).reply
                      /\ onDocument(St, c, TRUE, fileId, timeout, f).reply
                            # onDocument(St, c, TRUE, fileId, other, f).reply
            /\ \A text \in TextsIn :
                  CallsLookup(d, text) =>
                      \A other \in LookupKinds \ {"found", "timeout"} :
                          onText(St, c, text, ok, "timeout", f).reply
                              # onText(St, c, text, ok, other, f).reply

\* C16: when an 8-digit code is sent in await_cep and the lookup is called, a
\* not-found answer and a transport failure get two different replies and
\* both leave the persisted Draft as it was (step await_cep, no address); a
\* successful lookup stores the address it answered and moves step to
\* await_number, and no text moves await_cep to await_number otherwise.
C16_LookupOutcomes ==
    \A c \in cfg.chats, f \in Oks, text \in TextsIn :
        LET d == DraftOf(c)
            ok == CHOOSE o \in Predictions : TRUE
            r(via) == onText(St, c, text, ok, via, f)
        IN  /\ CallsLookup(d, text) =>
                /\ r("erro").reply = "cep_not_found"
                /\ \A via \in {"timeout", "error"} : r(via).reply = "cep_failed"
                /\ r("erro").reply # r("error").reply
                /\ \A via \in LookupKinds \ {"found"} :
                      /\ r(via).st.kv = store
                      /\ After(r(via), c).step = "await_cep"
                      /\ After(r(via), c).address = InitialDraft.address
                /\ r("found").reply = "address_found"
                /\ After(r("found"), c).step = "await_number"
                /\ After(r("found"), c).address =
                      addrOfVia(ViaCEP(onlyDigits(Trim(text))))
                /\ TruthyStr(After(r("found"), c).address.cep)
            /\ \A via \in LookupKinds :
                  (d.step = "await_cep" /\ After(r(via), c).step = "await_number")
                      => via = "found" /\ CallsLookup(d, text)

\* the lookup was called from await_cep and answered not-found: the Draft is
\* still in await_cep without an address
C16_Witness ==
    /\ reply = [on |-> "text", msg |-> "cep_not_found", from |-> "await_cep"]
    /\ \E c \in cfg.chats :
          /\ DraftOf(c).step = "await_cep"
          /\ DraftOf(c).address = InitialDraft.address
          /\ TruthyNum(DraftOf(c).qty)

\* one of name, cpf, phone, item, qty and cep is not in the Draft
MissingField(d) ==
    \/ ~IsSome(d.user.name)
    \/ ~IsSome(d.user.cpf)
    \/ ~IsSome(d.user.phone)
    \/ ~IsSome(d.item)
    \/ ~IsSome(d.qty)
    \/ ~IsSome(d.address.cep)

\* C17: a time selection handled when one of name, cpf, phone, item, qty and
\* cep is missing from the Draft is answered with the recovery message: never
\* with the summary, and the handler does not raise.
C17_LostStateRecovery ==
    \A c \in cfg.chats, f \in Oks, data \in DatasIn :
        (KeyOf(data) = S_time /\ MissingField(DraftOf(c)))
            => LET r == onCallback(St, c, data, f)
               IN  /\ r.reply = "lost_state"
                   /\ r.reply \notin {"summary", "threw"}
                   /\ MissingField(After(r, c))

\* a time selection was answered with the recovery message in a conversation
\* that has its identity and item but no postal code
C17_Witness ==
    /\ reply.on = "callback"
    /\ reply.msg = "lost_state"
    /\ \E c \in cfg.chats :
          LET d == DraftOf(c)
          IN  /\ ProfileComplete(d)
              /\ IsSome(d.item)
              /\ ~IsSome(d.address.cep)
              /\ IsSome(d.schedule.time)

\* r leaves every identity field that d holds as it is
KeepsIdentity(d, r, c) ==
    \A k \in {"name", "cpf", "phone"} :
        IsSome(d.user[k]) => After(r, c).user[k] = d.user[k]

\* C18: a name, cpf or phone that is in the Draft is left as it is by every
\* event that is not a reset (/start, /cancel or the cancel selection):
\* photos, documents, selections and texts.
C18_IdentityImmutable ==
    \A c \in cfg.chats, f \in Oks :
        LET d == DraftOf(c)
        IN  /\ \A fileId \in FileIds, cls \in ClassifierIn :
                  /\ KeepsIdentity(d, onPhoto(St, c, fileId, cls, f), c)
                  /\ \A isImage \in BOOLEAN :
                        KeepsIdentity(d, onDocument(St, c, isImage, fileId, cls, f), c)
            /\ \A data \in DatasIn :
                  KeyOf(data) # S_cancel
                      => KeepsIdentity(d, onCallback(St, c, data, f), c)
            /\ \A text \in TextsIn, ext \in TextOutcomesIn :
                  KeepsIdentity(d, onText(St, c, text, ext.cls, ext.via, f), c)

\* C19: the qty of every persisted Draft, when present, is an integer from 1
\* to 999, whether it was typed or chosen through a quantity selection.
C19_QtyInRange ==
    \A c \in cfg.chats :
        IsSome(store[draftKey(c)]) =>
            LET qty == Val(store[draftKey(c)]).qty
            IN  IsSome(qty) => ~Val(qty).nan /\ Val(qty).v \in 1..MAX_QTY

RECURSIVE WeightedSum(_, _, _)
WeightedSum(d, n, w) ==
    IF n = 0 THEN 0
    ELSE WeightedSum(d, n - 1, w) + DigitVal(d[n]) * (w - n + 1)

\* (10 * weighted sum) mod 11, with 10 mapped to 0
CheckDigit(d, n, w) ==
    LET r == (10 * WeightedSum(d, n, w)) % 11
    IN  IF r = 10 THEN 0 ELSE r

CpfRule(raw) ==
    LET d == SelectSeq(raw, LAMBDA ch : ch \in Digits)
    IN  /\ Len(d) = 11
        /\ \E i \in 1..Len(d) : d[i] # d[1]
        /\ DigitVal(d[10]) = CheckDigit(d, 9, 10)
        /\ DigitVal(d[11]) = CheckDigit(d, 10, 11)

\* C21: isValidCPF returns true exactly when the digits of its input are 11,
\* not all identical, and the 10th and 11th are the check digits (10 * weighted
\* sum) mod 11, 10 mapped to 0, weights from 10 over the first 9 digits and
\* from 11 over the first 10; it accepts 52998224725 and rejects 11111111111
\* and 52998224724.
C21_CpfRule ==
    (probe.fn = "isValidCPF" /\ IsSome(probe.out)) =>
        LET raw == Val(probe.in)
            out == Val(probe.out)
        IN  /\ out = CpfRule(raw)
            /\ raw = T_cpf => out
            /\ raw = SubSeq(T_cpf, 1, 10) \o <<"4">> => ~out
            /\ raw = [i \in 1..11 |-> "1"] => ~out

\* the validator accepted an ID whose first check digit is 0 because the
\* remainder was 10
C21_Witness ==
    /\ probe.fn = "isValidCPF"
    /\ probe.out = Some(TRUE)
    /\ (10 * WeightedSum(Val(probe.in), 9, 10)) % 11 = 10


\* r leaves what the store holds for conversation b as it is
KeepsOther(r, b) ==
    /\ r.st.kv[draftKey(b)] = store[draftKey(b)]
    /\ After(r, b) = DraftOf(b)

\* C22: distinct conversations have distinct keys, and no event of a
\* conversation a (command, photo, document, selection or text) changes
\* what is persisted for another conversation b.
C22_ConversationsIsolated ==
    \A a \in cfg.chats : \A b \in cfg.chats \ {a} :
        /\ draftKey(a) # draftKey(b)
        /\ \A f \in Oks :
              /\ KeepsOther(onStart(St, a, f), b)
              /\ KeepsOther(onCancel(St, a, f), b)
              /\ \A fileId \in FileIds, cls \in ClassifierIn :
                    /\ KeepsOther(onPhoto(St, a, fileId, cls, f), b)
                    /\ \A isImage \in BOOLEAN :
                          KeepsOther(onDocument(St, a, isImage, fileId, cls, f), b)
              /\ \A data \in DatasIn : KeepsOther(onCallback(St, a, data, f), b)
              /\ \A text \in TextsIn, ext \in TextOutcomesIn :
                    KeepsOther(onText(St, a, text, ext.cls, ext.via, f), b)

\* an event of one conversation was handled while the other conversation had
\* a Draft of its own, in another step
C22_Witness ==
    \E a \in cfg.chats : \E b \in cfg.chats \ {a} :
        /\ IsSome(store[draftKey(a)])
        /\ IsSome(store[draftKey(b)])
        /\ DraftOf(a).step = "await_qty"
        /\ DraftOf(b).step = "phone"
        /\ reply.msg = "ask_phone"


\* the day after a date of the calendar
NextDay(date) ==
    IF date.d < DaysIn(date.y, date.m) THEN [date EXCEPT !.d = date.d + 1]
    ELSE IF date.m < 12 THEN [y |-> date.y, m |-> date.m + 1, d |-> 1]
    ELSE [y |-> date.y + 1, m |-> 1, d |-> 1]

\* the date an iso string yyyy-mm-dd names
DateOfIso(iso) ==
    LET v(i) == DigitVal(iso[i])
    IN  [y |-> ((v(1) * 10 + v(2)) * 10 + v(3)) * 10 + v(4),
         m |-> v(6) * 10 + v(7),
         d |-> v(9) * 10 + v(10)]

\* C23: for every n >= 1 and every clock, the day catalog returns n dates, the
\* first is the current date (the UTC date of the clock, as toISOString
\* prints it) and each one after it is the calendar day after the one before
\* it, so they ascend.
C23_ConsecutiveDays ==
    (probe.fn = "nextDays" /\ IsSome(probe.out)) =>
        LET clock == Val(probe.in)
            out == Val(probe.out)
        IN  /\ Len(out) \in 1..MaxDays
            /\ out[1] = IsoDate(utcDate(clock.zone, clock.date, clock.hour))
            /\ \A k \in 1..(Len(out) - 1) :
                  /\ DateOfIso(out[k + 1]) = NextDay(DateOfIso(out[k]))
                  /\ DateNum(DateOfIso(out[k])) < DateNum(DateOfIso(out[k + 1]))


\* C24: a confirm-no selection handled in await_confirm removes item, sets
\* step to await_photo and leaves name, cpf and phone as they were; from then
\* on (item absent, profile complete) no event stores an item except an
\* upload that the classifier recognises, and whenever an item appears in a
\* Draft that had none, the event was answered with the classifier's result.
C24_RejectClearsItem ==
    \A c \in cfg.chats, f \in Oks :
        LET d == DraftOf(c)
            no == onCallback(St, c, S_confirm \o <<":">> \o S_no, f)
            absent(r) == ~IsSome(After(r, c).item)
            appears(r) == IsSome(After(r, c).item) => r.reply = "detected"
        IN  /\ d.step = "await_confirm" =>
                /\ ProfileComplete(d)
                /\ no.reply = "send_other_photo"
                /\ absent(no)
                /\ After(no, c).step = "await_photo"
                /\ After(no, c).user = d.user
            /\ (~IsSome(d.item) /\ ProfileComplete(d)) =>
                /\ absent(onStart(St, c, f))
                /\ absent(onCancel(St, c, f))
                /\ \A data \in DatasIn : absent(onCallback(St, c, data, f))
                /\ \A text \in TextsIn, ext \in TextOutcomesIn :
                      absent(onText(St, c, text, ext.cls, ext.via, f))
                /\ \A fileId \in FileIds, cls \in ClassifierIn :
                      /\ absent(onDocument(St, c, FALSE, fileId, cls, f))
                      /\ absent(onPhoto(St, c, fileId, cls, f)) <=> cls.kind # "ok"
                      /\ absent(onDocument(St, c, TRUE, fileId, cls, f))
                            <=> cls.kind # "ok"
            /\ ~IsSome(d.item) =>
                /\ \A data \in DatasIn : appears(onCallback(St, c, data, f))
                /\ \A text \in TextsIn, ext \in TextOutcomesIn :
                      appears(onText(St, c, text, ext.cls, ext.via, f))
                /\ \A fileId \in FileIds, cls \in ClassifierIn, isImage \in BOOLEAN :
                      /\ appears(onPhoto(St, c, fileId, cls, f))
                      /\ appears(onDocument(St, c, isImage, fileId, cls, f))

\* the item detected was rejected in await_confirm: the Draft is in
\* await_photo with its profile and without an item
C24_Witness ==
    /\ reply = [on |-> "callback", msg |-> "send_other_photo", from |-> "await_confirm"]
    /\ \E c \in cfg.chats :
          /\ DraftOf(c).step = "await_photo"
          /\ ~IsSome(DraftOf(c).item)
          /\ ProfileComplete(DraftOf(c))
          /\ IsSome(DraftOf(c).latestFileId)


\* C25: a text handled in step name whose content is empty after trimming
\* is rejected: the store is left as it was, step stays name and no name is
\* stored; a text that is not empty stores the name and moves step to cpf.
C25_BlankNameRejected ==
    \A c \in cfg.chats, f \in Oks, text \in TextsIn, ext \in TextOutcomesIn :
        LET d == DraftOf(c)
            r == onText(St, c, text, ext.cls, ext.via, f)
        IN  d.step = "name" =>
                IF Trim(text) = <<>>
                THEN /\ r.st.kv = store
                     /\ After(r, c).step = "name"
                     /\ After(r, c).user.name = d.user.name
                ELSE /\ After(r, c).user.name = Some(Trim(text))
                     /\ After(r, c).step = "cpf"

\* C26: a selection is answered with the summary only when the Draft it is
\* handled against is in step await_time and holds an address number and a
\* schedule day; a time selection handled in an earlier step gets no summary.
C26_SummaryOnlyInAwaitTime ==
    \A c \in cfg.chats, f \in Oks, data \in DatasIn :
        LET d == DraftOf(c)
        IN  onCallback(St, c, data, f).reply = "summary" =>
                /\ d.step = "await_time"
                /\ TruthyStr(d.address.numero)
                /\ IsSome(d.schedule.day)

\* C27: in every reachable Draft with step await_qty and an item, a text that
\* carries a positive integer is accepted and moves step to await_cep; in
\* every reachable Draft with step await_cep, a text that carries 8 digits
\* the lookup finds is accepted and moves step to await_number.
C27_NeverStuck ==
    \A c \in cfg.chats, f \in Oks :
        LET d == DraftOf(c)
            ok == CHOOSE o \in Predictions : TRUE
        IN  /\ (d.step = "await_qty" /\ IsSome(d.item)) =>
                LET r == onText(St, c, T_cpf, ok, "found", f)
                IN  r.reply = "ask_cep" /\ After(r, c).step = "await_cep"
            /\ d.step = "await_cep" =>
                LET r == onText(St, c, T_cep, ok, "found", f)
                IN  r.reply = "address_found" /\ After(r, c).step = "await_number"

\* C28: when a get of the remote store fails during an event that is not a
\* reset, the name, cpf and phone the store held before the event are still
\* in the Draft the store holds after it.
C28_FailedGetKeepsFields ==
    \A c \in cfg.chats, f \in Oks :
        LET d == DraftOf(c)
            kept(r) ==
                \A k \in {"name", "cpf", "phone"} :
                    IsSome(d.user[k]) => After(r, c).user[k] = d.user[k]
        IN  (\E i \in {1, 2, 4} : ~f[i]) =>
                /\ \A fileId \in FileIds, cls \in ClassifierIn :
                      /\ kept(onPhoto(St, c, fileId, cls, f))
                      /\ kept(onDocument(St, c, TRUE, fileId, cls, f))
                /\ \A data \in DatasIn :
                      KeyOf(data) # S_cancel => kept(onCallback(St, c, data, f))
                /\ \A text \in TextsIn, ext \in TextOutcomesIn :
                      kept(onText(St, c, text, ext.cls, ext.via, f))

=============================================================================
